---- MODULE Spec2Model ----
(***************************************************************************)
(* A model of twig-graft's two core subsystems:                            *)
(*   - mcgregor.py : the recursive branch-and-bound search for the         *)
(*     maximal common subgraph(s) of two attributed digraphs;               *)
(*   - birth_merge.py : the driver that merges twigs of the people graph.   *)
(* The search is modelled as a machine with an explicit call stack, one     *)
(* action per step of graph_matcher (Spec); the operator mcgregor composes  *)
(* the same steps along the recursion of the code, which is how the driver  *)
(* (SpecMerge) obtains the result of a call.                                *)
(***************************************************************************)
EXTENDS Integers, Sequences, FiniteSets, TLC

\* ------------------------------------------------------------------ bounds
MaxNodes == 3
MaxEdges == 1
NumTypes == 2

\* ------------------------------------------------------------ program values
\* Python's None as a value of the assignments dict (node names are positive)
None == 0
\* node_comparison=None / edge_comparison=None: no predicate was passed
NoPredicate == [supplied |-> FALSE, accepts |-> {}]
\* a node predicate, given by the set of pairs <<s_node, b_node>> it accepts
NodePredicate(pairs) == [supplied |-> TRUE, accepts |-> pairs]
\* math.inf, the initial value of the two bounds
Inf == 999

VARIABLES
    graph1,            \* mcgregor's first argument
    graph2,            \* mcgregor's second argument
    node_comparison,   \* NoPredicate or a NodePredicate
    edge_comparison,   \* TRUE: edge_match was passed, FALSE: edge_comparison=None
    mcs,               \* the NodeMatching object
    stack,             \* the frames of the active graph_matcher invocations
    pc,                \* "call" | "search" | "returned" | "raised" | "idle"
    \* birth_merge.main
    the_graph,         \* the people graph
    twig_queue,        \* the components still to process, smallest first
    processed_twigs,   \* twig id -> list of person ids
    surname_index,     \* standardized surname -> set of twig ids
    new_twig,          \* the twig popped last
    new_twig_surnames, \* its standardized surnames
    targets,           \* the candidates the for loop has not reached yet
    target_key,        \* the candidate at hand
    target_twig,       \* the deepcopy of its list
    match,             \* the pairs of match.items() not reached yet
    merge_successful,
    log,               \* the last message logged or printed
    input_json,        \* dum.json as this run of main() loaded it
    run,               \* the number of this run of main()
    at,                \* "while" | "for_target" | "called" | "for_pair" | "finished" |
                       \* "raised" | "idle"
    \* comparison.person_mismatch
    person_a,           \* the first argument
    person_b,           \* the second argument
    mismatch,          \* what person_mismatch(person1, person2) gave, or "idle"
    swapped            \* what person_mismatch(person2, person1) gave, or "idle"

search_vars == <<graph1, graph2, node_comparison, edge_comparison, mcs, stack, pc>>
merger_vars == <<the_graph, twig_queue, processed_twigs, surname_index, new_twig,
                 new_twig_surnames, targets, target_key, target_twig, match,
                 merge_successful, log, input_json, run, at>>
compare_vars == <<person_a, person_b, mismatch, swapped>>
vars == <<search_vars, merger_vars, compare_vars>>

\* ------------------------------------------------------------------ helpers
Range(s) == {s[i] : i \in 1..Len(s)}

\* [x for x in s if x in keep], in the order of s
RECURSIVE SelectIn(_, _)
SelectIn(s, keep) ==
    IF s = <<>> THEN <<>>
    ELSE IF Head(s) \in keep THEN <<Head(s)>> \o SelectIn(Tail(s), keep)
         ELSE SelectIn(Tail(s), keep)

\* a digraph: its nodes in insertion order, its edges, and the "type" of each
MkGraph(ns, es, ty) == [nodes |-> ns, edges |-> es, type |-> ty]

number_of_nodes(g) == Len(g.nodes)

has_edge(g, u, v) == <<u, v>> \in g.edges

\* the edge predicate of the module's own example: equality of the types
edge_match(g1, g2, n1_in_g1, n2_in_g1, n1_in_g2, n2_in_g2) ==
    g1.type[<<n1_in_g1, n2_in_g1>>] = g2.type[<<n1_in_g2, n2_in_g2>>]

\* ------------------------------------------------------- mcgregor(): set-up
\* the graph with fewer nodes is matched into the other one
SmallOf(g1, g2) == IF number_of_nodes(g1) < number_of_nodes(g2) THEN g1 ELSE g2
BigOf(g1, g2) == IF number_of_nodes(g1) < number_of_nodes(g2) THEN g2 ELSE g1

\* node_matches[s_node]: the compatible nodes of big, in the order of big.nodes
Candidates(big, ncmp, s) ==
    SelectIn(big.nodes, {b \in Range(big.nodes) : <<s, b>> \in ncmp.accepts})

\* the keys of node_matches: a key exists only once a compatible node was appended
NodeMatchKeys(small, big, ncmp) ==
    SelectIn(small.nodes, {s \in Range(small.nodes) : Candidates(big, ncmp, s) # <<>>})

\* NodeMatching.__init__
NodeMatching(small, big, ncmp) ==
    [graph1 |-> small,
     graph2 |-> big,
     null_matches_allowed |-> ncmp.supplied,
     keys |-> IF ~ncmp.supplied THEN small.nodes ELSE NodeMatchKeys(small, big, ncmp),
     node_matching |-> IF ~ncmp.supplied
                       THEN [s \in Range(small.nodes) |-> big.nodes]
                       ELSE [s \in Range(NodeMatchKeys(small, big, ncmp)) |->
                                Candidates(big, ncmp, s)],
     edges_removed |-> 0,
     nodes_removed |-> 0,
     maximal_edges_removed |-> Inf,
     maximal_nodes_removed |-> Inf,
     edges_added |-> 0,
     edges_in_maximal_subgraph |-> 0,
     assignments |-> [x \in {} |-> None],
     maximal_common_subgraphs |-> <<>>]

\* ------------------------------------------------- graph_matcher(): pieces
\* a frame of graph_matcher: where the invocation stands and its locals
Frame(m) ==
    [at |-> "entry",
     g1node |-> None,
     todo |-> <<>>,
     g1_possible_edges |-> {},
     starting_edges_removed |-> m.edges_removed,
     starting_edges_added |-> m.edges_added]

Top(st) == st[Len(st)]
Pop(st) == SubSeq(st, 1, Len(st) - 1)
SetTop(st, f) == [st EXCEPT ![Len(st)] = f]

\* matching.assignments[k] = v
Assign(a, k, v) == [x \in DOMAIN a \cup {k} |-> IF x = k THEN v ELSE a[x]]
\* matching.assignments.pop(k, None)
Unassign(a, k) == [x \in DOMAIN a \ {k} |-> a[x]]

g1todo(m) == SelectIn(m.keys, Range(m.keys) \ DOMAIN m.assignments)

\* every compatible node of graph2, the assigned ones too
g2_all_nodes(m, g1node) == m.node_matching[g1node]

g2_possible_nodes(m, g1node) ==
    SelectIn(m.node_matching[g1node],
             Range(m.node_matching[g1node]) \ {m.assignments[x] : x \in DOMAIN m.assignments})

\* the edges of graph1 between new_node and the currently matched subgraph
edges_to_subgraph_directed(m, new_node) ==
    LET g1_subgraph_nodes == {x \in DOMAIN m.assignments : m.assignments[x] # None}
        out_edges == {e \in m.graph1.edges :
                        e[1] = new_node /\ (e[1] \in g1_subgraph_nodes \/ e[2] \in g1_subgraph_nodes)}
        in_edges == {e \in m.graph1.edges :
                        e[2] = new_node /\ (e[2] \in g1_subgraph_nodes \/ e[1] \in g1_subgraph_nodes)}
    IN out_edges \cup in_edges

\* matching.assignments.get(n, g2node)
ImageOf(m, n, g2node) == IF n \in DOMAIN m.assignments THEN m.assignments[n] ELSE g2node

\* the body of the loop over g1_possible_edges: is the image of edge e a
\* compatible edge?  graph1 and graph2 are mcgregor's own arguments.
compatible_edge(env, m, e, g2node) ==
    LET n1_2 == ImageOf(m, e[1], g2node)
        n2_2 == ImageOf(m, e[2], g2node)
    IN /\ has_edge(env.graph2, n1_2, n2_2)
       /\ \/ ~env.edge_comparison
          \/ edge_match(env.graph1, env.graph2, e[1], e[2], n1_2, n2_2)

CompatibleEdges(env, m, f, g2node) ==
    {e \in f.g1_possible_edges : compatible_edge(env, m, e, g2node)}

EdgesAddedWith(env, m, f, g2node) ==
    f.starting_edges_added + Cardinality(CompatibleEdges(env, m, f, g2node))

EdgesRemovedWith(env, m, f, g2node) ==
    f.starting_edges_removed
        + Cardinality(f.g1_possible_edges \ CompatibleEdges(env, m, f, g2node))

\* {k: v for (k, v) in self.assignments.items() if v is not None}
Matched(a) == [x \in {k \in DOMAIN a : a[k] # None} |-> a[x]]

\* NodeMatching.add_as_maximal
add_as_maximal(m) ==
    LET bigger == \/ m.edges_added > m.edges_in_maximal_subgraph
                  \/ m.nodes_removed < m.maximal_nodes_removed
        same == /\ m.edges_added = m.edges_in_maximal_subgraph
                /\ m.nodes_removed = m.maximal_nodes_removed
    IN [m EXCEPT
          !.maximal_common_subgraphs =
              IF bigger THEN <<Matched(m.assignments)>>
              ELSE IF same THEN Append(@, Matched(m.assignments))
              ELSE @,
          !.edges_in_maximal_subgraph = IF bigger THEN m.edges_added ELSE @,
          !.maximal_edges_removed = IF m.edges_removed < @ THEN m.edges_removed ELSE @,
          !.maximal_nodes_removed = IF m.nodes_removed < @ THEN m.nodes_removed ELSE @]

\* the test at the bottom of the recursion
new_maximal(m) ==
    /\ ~(m.edges_removed > m.maximal_edges_removed)
    /\ ~(m.edges_added < m.edges_in_maximal_subgraph)
    /\ ~(m.nodes_removed > m.maximal_nodes_removed)

\* --------------------------------------------- graph_matcher(): the steps
\* Each step maps the pair (matching, stack) to the next one; env holds the
\* variables graph_matcher reads from the enclosing mcgregor call.
St(m, st) == [mcs |-> m, stack |-> st]

AtEntry(s) == s.stack # <<>> /\ Top(s.stack).at = "entry"
AtFor(s) == s.stack # <<>> /\ Top(s.stack).at = "for"

\* g1todo is empty: the recursion bottomed out, record the matching and return
CanLeaf(s) == AtEntry(s) /\ g1todo(s.mcs) = <<>>
DoLeaf(s) ==
    St(IF new_maximal(s.mcs) THEN add_as_maximal(s.mcs) ELSE s.mcs, Pop(s.stack))

\* g1node has feasible g2 nodes: start the loop over them
CanBeginFor(s) ==
    /\ AtEntry(s)
    /\ g1todo(s.mcs) # <<>>
    /\ g2_possible_nodes(s.mcs, g1todo(s.mcs)[1]) # <<>>
DoBeginFor(s) ==
    LET g1node == g1todo(s.mcs)[1]
    IN St(s.mcs,
          SetTop(s.stack, [Top(s.stack) EXCEPT
              !.at = "for",
              !.g1node = g1node,
              !.g1_possible_edges = edges_to_subgraph_directed(s.mcs, g1node),
              !.todo = g2_possible_nodes(s.mcs, g1node)]))

\* matching.assignments[g1node] = None; matching.nodes_removed += 1; recurse
RecurseNull(s, g1node) ==
    LET m == [s.mcs EXCEPT !.assignments = Assign(@, g1node, None),
                           !.nodes_removed = @ + 1]
    IN St(m, Append(SetTop(s.stack, [Top(s.stack) EXCEPT !.at = "after_null",
                                                         !.g1node = g1node]),
                    Frame(m)))

\* g1node has no feasible g2 node: it is removed
CanForcedNull(s) ==
    /\ AtEntry(s)
    /\ g1todo(s.mcs) # <<>>
    /\ g2_possible_nodes(s.mcs, g1todo(s.mcs)[1]) = <<>>
DoForcedNull(s) == RecurseNull(s, g1todo(s.mcs)[1])

\* an iteration of the loop whose edges_removed exceeds the bound: continue
CanPrune(env, s) ==
    /\ AtFor(s)
    /\ Top(s.stack).todo # <<>>
    /\ EdgesRemovedWith(env, s.mcs, Top(s.stack), Head(Top(s.stack).todo))
          > s.mcs.maximal_edges_removed
DoPrune(s) == St(s.mcs, SetTop(s.stack, [Top(s.stack) EXCEPT !.todo = Tail(@)]))

\* an iteration of the loop within the bound: assign g2node and recurse
CanDescend(env, s) ==
    /\ AtFor(s)
    /\ Top(s.stack).todo # <<>>
    /\ ~(EdgesRemovedWith(env, s.mcs, Top(s.stack), Head(Top(s.stack).todo))
          > s.mcs.maximal_edges_removed)
DoDescend(env, s) ==
    LET f == Top(s.stack)
        g2node == Head(f.todo)
        m == [s.mcs EXCEPT !.assignments = Assign(@, f.g1node, g2node),
                           !.edges_removed = EdgesRemovedWith(env, s.mcs, f, g2node),
                           !.edges_added = EdgesAddedWith(env, s.mcs, f, g2node)]
    IN St(m, Append(SetTop(s.stack, [f EXCEPT !.at = "after_call"]), Frame(m)))

\* the loop going on to its next iteration with nothing restored
KeepCandidate(s) ==
    St(s.mcs, SetTop(s.stack, [Top(s.stack) EXCEPT !.at = "for", !.todo = Tail(@)]))

\* the recursive call of an iteration returned: undo the assignment
CanUndoCandidate(s) == s.stack # <<>> /\ Top(s.stack).at = "after_call"
DoUndoCandidate(s) ==
    LET f == Top(s.stack)
    IN St([s.mcs EXCEPT !.edges_removed = f.starting_edges_removed,
                        !.edges_added = f.starting_edges_added,
                        !.assignments = Unassign(@, f.g1node)],
          SetTop(s.stack, [f EXCEPT !.at = "for", !.todo = Tail(@)]))

\* after the loop: try leaving g1node unmatched, if that is still allowed
NullStillAllowed(m) ==
    m.null_matches_allowed /\ m.nodes_removed < m.maximal_nodes_removed
CanTryNull(s) == AtFor(s) /\ Top(s.stack).todo = <<>> /\ NullStillAllowed(s.mcs)
DoTryNull(s) == RecurseNull(s, Top(s.stack).g1node)

\* after the loop, no null match: the invocation returns
CanReturnAfterFor(s) == AtFor(s) /\ Top(s.stack).todo = <<>> /\ ~NullStillAllowed(s.mcs)
DoReturnAfterFor(s) == St(s.mcs, Pop(s.stack))

\* the recursive call of a null match returned: undo it and return
CanUndoNull(s) == s.stack # <<>> /\ Top(s.stack).at = "after_null"
DoUndoNull(s) ==
    St([s.mcs EXCEPT !.nodes_removed = @ - 1,
                     !.assignments = Unassign(@, Top(s.stack).g1node)],
       Pop(s.stack))

\* graph_matcher(matching) as a whole: the steps above, composed along the
\* recursion of the code.  Invocation runs the invocation whose frame is on top
\* of the stack until it returns; ForLoop runs the rest of its loop.
RECURSIVE Invocation(_, _), ForLoop(_, _)
Invocation(env, s) ==
    IF CanLeaf(s) THEN DoLeaf(s)
    ELSE IF CanForcedNull(s) THEN DoUndoNull(Invocation(env, DoForcedNull(s)))
    ELSE ForLoop(env, DoBeginFor(s))

ForLoop(env, s) ==
    IF CanPrune(env, s) THEN ForLoop(env, DoPrune(s))
    ELSE IF CanDescend(env, s)
         THEN ForLoop(env, DoUndoCandidate(Invocation(env, DoDescend(env, s))))
    ELSE IF CanTryNull(s) THEN DoUndoNull(Invocation(env, DoTryNull(s)))
    ELSE DoReturnAfterFor(s)

graph_matcher(env, m) == Invocation(env, St(m, <<Frame(m)>>)).mcs

Env(g1, g2, ecmp) == [graph1 |-> g1, graph2 |-> g2, edge_comparison |-> ecmp]

\* mcgregor(graph1, graph2, node_comparison, edge_comparison)
McsOf(g1, g2, ncmp) == NodeMatching(SmallOf(g1, g2), BigOf(g1, g2), ncmp)

mcgregor(g1, g2, ncmp, ecmp) ==
    LET m == McsOf(g1, g2, ncmp)
    IN IF m.keys # <<>> THEN graph_matcher(Env(g1, g2, ecmp), m) ELSE m

\* ----------------------------------------------------- the search, stepwise
Digraphs ==
    UNION {
        UNION { { MkGraph(ns, es, ty) : ty \in [es -> 1..NumTypes] } :
                es \in {x \in SUBSET {p \in Range(ns) \X Range(ns) : p[1] # p[2]} :
                            Cardinality(x) <= MaxEdges} } :
        ns \in { [i \in 1..n |-> i] : n \in 1..MaxNodes } }

\* the same graph under other node names, so that the two arguments share none
Renamed(g, d) ==
    MkGraph([i \in 1..Len(g.nodes) |-> g.nodes[i] + d],
            {<<e[1] + d, e[2] + d>> : e \in g.edges},
            [e \in {<<x[1] + d, x[2] + d>> : x \in g.edges} |-> g.type[<<e[1] - d, e[2] - d>>]])

NameOffset == 10

\* main() is not running
MergerIdle ==
    /\ the_graph = [nodes |-> <<>>, edges |-> {}]
    /\ twig_queue = <<>>
    /\ processed_twigs = <<>>
    /\ surname_index = <<>>
    /\ new_twig = <<>>
    /\ new_twig_surnames = {}
    /\ targets = {}
    /\ target_key = None
    /\ target_twig = <<>>
    /\ match = <<>>
    /\ merge_successful = FALSE
    /\ log = ""
    /\ input_json = [persons |-> [keys |-> <<>>, person |-> <<>>], relations |-> {}]
    /\ run = 0
    /\ at = "idle"

\* person_mismatch is not being called
ComparisonIdle ==
    /\ person_a = <<>>
    /\ person_b = <<>>
    /\ mismatch = "idle"
    /\ swapped = "idle"

Init ==
    /\ graph1 \in Digraphs
    /\ graph2 \in {Renamed(g, NameOffset) : g \in Digraphs}
    /\ node_comparison \in
         {NoPredicate} \cup
         {NodePredicate(pairs) :
            pairs \in SUBSET (Range(SmallOf(graph1, graph2).nodes)
                                \X Range(BigOf(graph1, graph2).nodes))}
    /\ edge_comparison \in BOOLEAN
    \* the types are only ever read by edge_match, which compares them for
    \* equality: graph1 keeps to the first type
    /\ \A e \in graph1.edges : graph1.type[e] = 1
    /\ edge_comparison \/ \A e \in graph2.edges : graph2.type[e] = 1
    /\ mcs = McsOf(graph1, graph2, node_comparison)
    /\ stack = <<>>
    /\ pc = "call"
    /\ MergerIdle
    /\ ComparisonIdle

Here == St(mcs, stack)
TheEnv == Env(graph1, graph2, edge_comparison)

Goto(s) == mcs' = s.mcs /\ stack' = s.stack
Inputs == <<graph1, graph2, node_comparison, edge_comparison, merger_vars, compare_vars>>

\* mcgregor up to its call of graph_matcher (or its return with no candidates)
Call ==
    /\ pc = "call"
    /\ IF mcs.keys # <<>>
       THEN pc' = "search" /\ stack' = <<Frame(mcs)>>
       ELSE pc' = "returned" /\ stack' = <<>>
    /\ UNCHANGED <<mcs, Inputs>>

Leaf == pc = "search" /\ CanLeaf(Here) /\ Goto(DoLeaf(Here)) /\ UNCHANGED <<pc, Inputs>>
BeginFor == pc = "search" /\ CanBeginFor(Here) /\ Goto(DoBeginFor(Here)) /\ UNCHANGED <<pc, Inputs>>
ForcedNull == pc = "search" /\ CanForcedNull(Here) /\ Goto(DoForcedNull(Here)) /\ UNCHANGED <<pc, Inputs>>
Prune == pc = "search" /\ CanPrune(TheEnv, Here) /\ Goto(DoPrune(Here)) /\ UNCHANGED <<pc, Inputs>>
Descend == pc = "search" /\ CanDescend(TheEnv, Here) /\ Goto(DoDescend(TheEnv, Here)) /\ UNCHANGED <<pc, Inputs>>
UndoCandidate == pc = "search" /\ CanUndoCandidate(Here) /\ Goto(DoUndoCandidate(Here)) /\ UNCHANGED <<pc, Inputs>>
TryNull == pc = "search" /\ CanTryNull(Here) /\ Goto(DoTryNull(Here)) /\ UNCHANGED <<pc, Inputs>>
ReturnAfterFor == pc = "search" /\ CanReturnAfterFor(Here) /\ Goto(DoReturnAfterFor(Here)) /\ UNCHANGED <<pc, Inputs>>
UndoNull == pc = "search" /\ CanUndoNull(Here) /\ Goto(DoUndoNull(Here)) /\ UNCHANGED <<pc, Inputs>>

\* the outermost graph_matcher returned: mcgregor returns mcs
Return ==
    /\ pc = "search"
    /\ stack = <<>>
    /\ pc' = "returned"
    /\ UNCHANGED <<mcs, stack, Inputs>>

Next ==
    \/ Call
    \/ Leaf
    \/ BeginFor
    \/ ForcedNull
    \/ Prune
    \/ Descend
    \/ UndoCandidate
    \/ TryNull
    \/ ReturnAfterFor
    \/ UndoNull
    \/ Return

Spec == Init /\ [][Next]_vars

\* ======================================================= persons and oracles
\* Python's three truth values of a comparison, and the outcome of a call that
\* may raise
Yes == "True"
No == "False"
Unknown == "None"
ValueError == "ValueError"

\* data_model.Name, as far as the comparisons read it; an absent standard form is ""
Name(name_type, standard_given, standard_surname) ==
    [name_type |-> name_type, standard_given |-> standard_given,
     standard_surname |-> standard_surname]

\* data_model.Date: days since an epoch, and the accuracy in days
Date(start, end, accuracy) == [start |-> start, end |-> end, accuracy |-> accuracy]

\* data_model.Fact, as far as the comparisons read it
Fact(fact_type, date) == [fact_type |-> fact_type, date |-> date]

\* data_model.Person; merged is the tombstone flag the merger reads
Person(identifier, gender, names, facts, merged) ==
    [identifier |-> identifier, gender |-> gender, names |-> names, facts |-> facts,
     merged |-> merged]

\* the list get_names()[name_type] / get_facts()[fact_type]
RECURSIVE OfType(_, _, _)
OfType(s, field, value) ==
    IF s = <<>> THEN <<>>
    ELSE IF Head(s)[field] = value THEN <<Head(s)>> \o OfType(Tail(s), field, value)
         ELSE OfType(Tail(s), field, value)

has_fact(person, fact) == OfType(person.facts, "fact_type", fact) # <<>>

compare_name_part(name1, name2, part) ==
    LET standard1 == IF part = "given" THEN name1.standard_given ELSE name1.standard_surname
        standard2 == IF part = "given" THEN name2.standard_given ELSE name2.standard_surname
    IN IF standard1 # "" /\ standard2 # ""
       THEN (IF standard1 = standard2 THEN Yes ELSE No)
       ELSE Unknown

compare_fullname(name1, name2, disqualify_surname_mismatch) ==
    LET given_comp == compare_name_part(name1, name2, "given")
        surname_comp == compare_name_part(name1, name2, "surname")
    IN IF given_comp = No THEN No
       ELSE IF surname_comp = No /\ disqualify_surname_mismatch THEN No
       ELSE IF given_comp = Yes /\ surname_comp = Yes THEN Yes
       ELSE Unknown

\* name_match(person1.get_names(), person2.get_names())[0]: the number of
\* matches, or -1 as soon as a comparison is False
name_match(names1, names2) ==
    LET births1 == OfType(names1, "name_type", "birth")
        births2 == OfType(names2, "name_type", "birth")
        names1list == OfType(names1, "name_type", "married") \o OfType(names1, "name_type", "unknown")
        names2list == OfType(names2, "name_type", "married") \o OfType(names2, "name_type", "unknown")
        I1 == 1..Len(names1list)
        I2 == 1..Len(names2list)
        hasBirth1 == births1 # <<>>
        hasBirth2 == births2 # <<>>
        birthComp == IF hasBirth1 /\ hasBirth2
                     THEN compare_fullname(births1[1], births2[1], TRUE) ELSE Unknown
        listComp == [i \in I1, j \in I2 |-> compare_fullname(names1list[i], names2list[j], FALSE)]
        b1Comp == [j \in I2 |-> IF hasBirth1 THEN compare_fullname(births1[1], names2list[j], FALSE)
                                ELSE Unknown]
        b2Comp == [i \in I1 |-> IF hasBirth2 THEN compare_fullname(names1list[i], births2[1], FALSE)
                                ELSE Unknown]
        anyFalse == \/ birthComp = No
                    \/ \E i \in I1, j \in I2 : listComp[i, j] = No
                    \/ \E j \in I2 : b1Comp[j] = No
                    \/ \E i \in I1 : b2Comp[i] = No
    IN IF names1 = <<>> \/ names2 = <<>> THEN 0
       ELSE IF anyFalse THEN -1
       ELSE (IF birthComp = Yes THEN 1 ELSE 0)
            + Cardinality({ij \in I1 \X I2 : listComp[ij[1], ij[2]] = Yes})
            + Cardinality({j \in I2 : b1Comp[j] = Yes})
            + Cardinality({i \in I1 : b2Comp[i] = Yes})

date_overlap(date1, date2) ==
    /\ date1.start - date1.accuracy <= date2.end + date2.accuracy
    /\ date2.start - date2.accuracy <= date1.end + date1.accuracy

datelist_overlap(datelist1, datelist2) ==
    \E i \in 1..Len(datelist1) : \E j \in 1..Len(datelist2) :
        date_overlap(datelist1[i], datelist2[j])

\* the placeholder dates earliest() and latest() start from
Date2020 == 1000
Date1492 == -1000

RECURSIVE earliest_from(_, _)
earliest_from(out, datelist) ==
    IF datelist = <<>> THEN out
    ELSE earliest_from(IF Head(datelist).start < out.start THEN Head(datelist) ELSE out,
                       Tail(datelist))
earliest(datelist) == earliest_from(Date(Date2020, Date2020, 0), datelist)

RECURSIVE latest_from(_, _)
latest_from(out, datelist) ==
    IF datelist = <<>> THEN out
    ELSE latest_from(IF Head(datelist).end > out.end THEN Head(datelist) ELSE out,
                     Tail(datelist))
latest(datelist) == latest_from(Date(Date1492, Date1492, 0), datelist)

\* Date.is_before: the first date lies strictly before the second
is_before(date1, date2) == date1.start < date2.end

\* Person.birth_date() / death_date(): the dates of the first such fact, <<>>
\* for none; the call raises ValueError when there are several
fact_date(person, fact_type) ==
    LET facts == OfType(person.facts, "fact_type", fact_type)
    IN IF facts = <<>> THEN <<>> ELSE facts[1].date

fact_date_raises(person, fact_type) ==
    Len(OfType(person.facts, "fact_type", fact_type)) > 1

\* the comparisons of birth_death_match without the last one, birth2 with death1
DatesExcludeOneWay(birth1, birth2, death1, death2) ==
    \/ birth1 # <<>> /\ birth2 # <<>> /\ ~datelist_overlap(birth1, birth2)
    \/ death1 # <<>> /\ death2 # <<>> /\ ~datelist_overlap(death1, death2)
    \/ birth1 # <<>> /\ death2 # <<>> /\ ~is_before(earliest(birth1), latest(death2))

\* birth_death_match(person1, person2)[0] is -1: the dates exclude each other
DatesExclude(birth1, birth2, death1, death2) ==
    \/ birth1 # <<>> /\ birth2 # <<>> /\ ~datelist_overlap(birth1, birth2)
    \/ death1 # <<>> /\ death2 # <<>> /\ ~datelist_overlap(death1, death2)
    \/ birth1 # <<>> /\ death2 # <<>> /\ ~is_before(earliest(birth1), latest(death2))
    \/ birth2 # <<>> /\ death1 # <<>> /\ ~is_before(earliest(birth2), latest(death1))

\* comparison.person_mismatch: Yes, No, or ValueError when it raises
person_mismatch(person1, person2) ==
    LET birth1 == fact_date(person1, "Birth")
        birth2 == fact_date(person2, "Birth")
        death1 == fact_date(person1, "Death")
        death2 == fact_date(person2, "Death")
    IN IF has_fact(person1, "Stillbirth") \/ has_fact(person2, "Stillbirth") THEN Yes
       ELSE IF person1.gender # person2.gender THEN Yes
       ELSE IF name_match(person1.names, person2.names) = -1 THEN Yes
       ELSE IF \/ fact_date_raises(person1, "Birth") \/ fact_date_raises(person2, "Birth")
               \/ fact_date_raises(person1, "Death") \/ fact_date_raises(person2, "Death")
            THEN ValueError
       ELSE IF DatesExclude(birth1, birth2, death1, death2) THEN Yes
       ELSE No

\* ============================================================ the people graph
\* data_model.Relationship, as far as the merger reads it
Relationship(from_id, to_id, relationship_type, facts) ==
    [from_id |-> from_id, to_id |-> to_id, relationship_type |-> relationship_type,
     facts |-> facts]

\* The DiGraph of PeopleGraph: the nodes in insertion order, the "person" of
\* each node, the edges and the "relation" of each edge.
PeopleGraph(nodes, person, edges, relation) ==
    [nodes |-> nodes, person |-> person, edges |-> edges, relation |-> relation]

\* the_graph.add_node(n, person=p)
add_node(g, n, p) ==
    [g EXCEPT !.nodes = IF n \in Range(@) THEN @ ELSE Append(@, n),
              !.person = [x \in DOMAIN @ \cup {n} |-> IF x = n THEN p ELSE @[x]]]

\* the_graph.add_edge(u, v, relation=r), both u and v being nodes already
add_edge(g, u, v, r) ==
    [g EXCEPT !.edges = @ \cup {<<u, v>>},
              !.relation = [e \in DOMAIN @ \cup {<<u, v>>} |->
                                IF e = <<u, v>> THEN r ELSE @[e]]]

\* no edge is removed
keep_edges(g, es) == g

\* the_graph.remove_edge(u, v) for each edge of es
remove_edges(g, es) ==
    [g EXCEPT !.edges = @ \ es, !.relation = [e \in DOMAIN @ \ es |-> @[e]]]

\* PeopleGraph.json(): the persons of the people dict, and the relation of
\* each edge of the graph
json(people, g) ==
    [persons |-> people, relations |-> {g.relation[e] : e \in g.edges}]

\* the people dict after a load that gave the graph g
people_of(g) == [keys |-> g.nodes, person |-> g.person]

RECURSIVE ascending(_)
ascending(ids) ==
    IF ids = {} THEN <<>>
    ELSE LET least == CHOOSE n \in ids : \A other \in ids : n <= other
         IN <<least>> \o ascending(ids \ {least})

\* PeopleGraph(graph_json=...): the nodes are the keys of the people dict,
\* add_edges_from adds the endpoints that are no node yet, and only a key
\* of the people dict has a person
from_json(graph_json) ==
    LET edges == {<<r.from_id, r.to_id>> : r \in graph_json.relations}
        keys == graph_json.persons.keys
        endpoints == {e[1] : e \in edges} \cup {e[2] : e \in edges}
    IN PeopleGraph(
         keys \o ascending(endpoints \ Range(keys)),
         graph_json.persons.person,
         edges,
         [e \in edges |-> CHOOSE r \in graph_json.relations :
                               r.from_id = e[1] /\ r.to_id = e[2]])

\* the_graph.subgraph(twig), as mcgregor and edge_match read it: the type of
\* an edge is the relationship_type of its relation
subgraph(g, twig) ==
    LET es == {e \in g.edges : e[1] \in twig /\ e[2] \in twig}
    IN MkGraph(SelectIn(g.nodes, twig), es, [e \in es |-> g.relation[e].relationship_type])

Live(g, n) == ~g.person[n].merged

\* the predecessors of p, the merged ones among them
all_predecessors(g, p) == {n \in Range(g.nodes) : <<n, p>> \in g.edges}

\* the successors / predecessors of p that are not merged
live_successors(g, p) == {n \in Range(g.nodes) : <<p, n>> \in g.edges /\ Live(g, n)}

live_predecessors(g, p) == {n \in Range(g.nodes) : <<n, p>> \in g.edges /\ Live(g, n)}

\* nx.weakly_connected_components(g restricted to keep): the component of each
\* node, in the order in which the first node of each component is met
RECURSIVE Reach(_, _, _)
Reach(g, keep, seen) ==
    LET more == {n \in keep \ seen :
                    \E m \in seen : <<m, n>> \in g.edges \/ <<n, m>> \in g.edges}
    IN IF more = {} THEN seen ELSE Reach(g, keep, seen \cup more)

RECURSIVE components_from(_, _, _)
components_from(g, keep, order) ==
    IF order = <<>> THEN <<>>
    ELSE LET c == Reach(g, keep, {Head(order)})
         IN <<c>> \o components_from(g, keep, SelectIn(Tail(order), keep \ c))

weakly_connected_components(g, keep) == components_from(g, keep, SelectIn(g.nodes, keep))

\* sorted(components, key=len): a stable insertion sort by size
\* the component is put last whatever its size: the list stays unsorted
insert_at_end(sorted, c) == Append(sorted, c)

RECURSIVE insert_by_len(_, _)
insert_by_len(sorted, c) ==
    IF sorted = <<>> THEN <<c>>
    ELSE IF Cardinality(c) < Cardinality(Head(sorted)) THEN <<c>> \o sorted
    ELSE <<Head(sorted)>> \o insert_by_len(Tail(sorted), c)

RECURSIVE sorted_by_len(_)
sorted_by_len(cs) ==
    IF cs = <<>> THEN <<>>
    ELSE insert_by_len(sorted_by_len(SubSeq(cs, 1, Len(cs) - 1)), cs[Len(cs)])

\* ------------------------------------------------------ the merge contract
\* Person.standardized_surnames(): the standardized surnames of the names
standardized_surnames(person) ==
    {person.names[i].standard_surname : i \in 1..Len(person.names)} \ {""}

\* the union of two lists, a duplicate of the second left out
RECURSIVE union_dedup(_, _)
union_dedup(s1, s2) ==
    IF s2 = <<>> THEN s1
    ELSE union_dedup(IF Head(s2) \in Range(s1) THEN s1 ELSE Append(s1, Head(s2)), Tail(s2))

\* Person.merge fails when the oracle rejects the pair
MergeIncompatible(self, other) == person_mismatch(self, other) # No

MergedInto == "merged-into"

\* Person.merge(other) with the fresh identifier id: the new Person and the
\* two provenance relations; marking the two inputs is left to the caller
PersonMerge(self, other, id) ==
    [person |-> Person(id, self.gender, union_dedup(self.names, other.names),
                       union_dedup(self.facts, other.facts), FALSE),
     rel1 |-> Relationship(self.identifier, id, MergedInto, <<>>),
     rel2 |-> Relationship(other.identifier, id, MergedInto, <<>>)]

\* two facts of the same type whose dates exclude each other
FactsConflict(f1, f2) ==
    /\ f1.fact_type = f2.fact_type
    /\ f1.date # <<>>
    /\ f2.date # <<>>
    /\ ~datelist_overlap(f1.date, f2.date)

\* Relationship.merge(other) raises: the two do not share type and endpoints,
\* or their facts are irreconcilable
RelationMergeConflict(self, other) ==
    \/ self.relationship_type # other.relationship_type
    \/ self.from_id # other.from_id
    \/ self.to_id # other.to_id
    \/ \E i \in 1..Len(self.facts) : \E j \in 1..Len(other.facts) :
          FactsConflict(self.facts[i], other.facts[j])

\* Relationship.merge(other): the facts are unioned
RelationMerge(self, other) ==
    Relationship(self.from_id, self.to_id, self.relationship_type,
                 union_dedup(self.facts, other.facts))

\* ================================================================ birth_merge
minimum_match_size == 5

\* node_match as the predicate mcgregor is handed: the pairs of persons that
\* do not mismatch
node_match(g, small, big) ==
    NodePredicate({sb \in Range(small.nodes) \X Range(big.nodes) :
                      person_mismatch(g.person[sb[1]], g.person[sb[2]]) = No})

\* building node_matches raises: person_mismatch raised for some pair
node_match_raises(g, small, big) ==
    \E s \in Range(small.nodes) : \E b \in Range(big.nodes) :
        person_mismatch(g.person[s], g.person[b]) = ValueError

\* the twig as mcgregor walks it: the nodes in the order of the list
twig_graph(g, twig) ==
    LET sub == subgraph(g, Range(twig)) IN MkGraph(twig, sub.edges, sub.type)

\* the two arguments of the call of mcgregor for new_twig against target_twig
FirstArgument(g, new, target) ==
    IF Len(new) < Len(target) THEN twig_graph(g, new) ELSE twig_graph(g, target)
SecondArgument(g, new, target) ==
    IF Len(new) < Len(target) THEN twig_graph(g, target) ELSE twig_graph(g, new)

McsRaises(g, new, target) ==
    LET g1 == FirstArgument(g, new, target)
        g2 == SecondArgument(g, new, target)
    IN node_match_raises(g, SmallOf(g1, g2), BigOf(g1, g2))

TwigMcs(g, new, target) ==
    LET g1 == FirstArgument(g, new, target)
        g2 == SecondArgument(g, new, target)
    IN mcgregor(g1, g2, node_match(g, SmallOf(g1, g2), BigOf(g1, g2)), TRUE)

\* match.items(): the pairs in the order the keys were assigned
items(m, matching) ==
    LET ks == SelectIn(m.keys, DOMAIN matching)
    IN [i \in 1..Len(ks) |-> <<ks[i], matching[ks[i]]>>]

\* the verdict of a loop that leaves out the test of the size of the match
VerdictWithoutSize(m) ==
    IF m.maximal_common_subgraphs = <<>> THEN "no common subgraph"
    ELSE IF Len(m.maximal_common_subgraphs) > 1
         THEN "multiple maximal common subgraphs, skipping"
    ELSE "good match, merging"

\* lines 130-142: what the loop over the candidates does with the result m
Verdict(m) ==
    IF m.maximal_common_subgraphs = <<>> THEN "no common subgraph"
    ELSE IF Len(m.maximal_common_subgraphs) > 1
         THEN "multiple maximal common subgraphs, skipping"
    ELSE IF Cardinality(DOMAIN m.maximal_common_subgraphs[1]) < minimum_match_size
         THEN "match not big enough"
    ELSE "good match, merging"

\* add_processed_twig: the id is a fresh one
fresh_twig_id(processed) == Len(processed) + 1

add_processed_twig ==
    LET id == fresh_twig_id(processed_twigs)
    IN /\ processed_twigs' = Append(processed_twigs, new_twig')
       /\ surname_index' = [name \in DOMAIN surname_index |->
                               IF name \in new_twig_surnames'
                               THEN surname_index[name] \cup {id}
                               ELSE surname_index[name]]

sanity_check(g) == \A node \in Range(g.nodes) : node \in DOMAIN g.person

\* a pre-flight that tries the shared successors only
PreflightOfSuccessors(g, p1, p2) ==
    \E neighbor \in live_successors(g, p1) \cap live_successors(g, p2) :
        RelationMergeConflict([g.relation[<<p1, neighbor>>] EXCEPT !.from_id = "merged"],
                              [g.relation[<<p2, neighbor>>] EXCEPT !.from_id = "merged"])

\* a pre-flight that fails for every pair
PreflightAlwaysFails(g, p1, p2) == TRUE

\* the pre-flight of a pair: some shared neighbour's two relations do not merge
PreflightFails(g, p1, p2) ==
    \/ \E neighbor \in live_successors(g, p1) \cap live_successors(g, p2) :
          RelationMergeConflict([g.relation[<<p1, neighbor>>] EXCEPT !.from_id = "merged"],
                                [g.relation[<<p2, neighbor>>] EXCEPT !.from_id = "merged"])
    \/ \E neighbor \in live_predecessors(g, p1) \cap live_predecessors(g, p2) :
          RelationMergeConflict([g.relation[<<neighbor, p1>>] EXCEPT !.to_id = "merged"],
                                [g.relation[<<neighbor, p2>>] EXCEPT !.to_id = "merged"])

\* the identifier of the Person that Person.merge creates
MergedBase == 100
fresh_person_id(g) == MergedBase + Cardinality({n \in Range(g.nodes) : n > MergedBase}) + 1

\* a rewire that leaves the relation's own ids as they were
kept_ids(relation, merged_id) == relation

\* relation.from_id = merged_id / relation.to_id = merged_id
rerouted_from(relation, merged_id) == [relation EXCEPT !.from_id = merged_id]

rerouted_to(relation, merged_id) == [relation EXCEPT !.to_id = merged_id]

\* the node merge and the rewiring of a pair whose pre-flight passed
MergePair(g, p1, p2) ==
    LET p1_succ == live_successors(g, p1)
        p1_pred == live_predecessors(g, p1)
        p2_succ == live_successors(g, p2)
        p2_pred == live_predecessors(g, p2)
        merged == PersonMerge(g.person[p1], g.person[p2], fresh_person_id(g))
        merged_id == merged.person.identifier
        with_node == add_edge(add_edge(add_node(g, merged_id, merged.person),
                                       merged.rel1.from_id, merged.rel1.to_id, merged.rel1),
                              merged.rel2.from_id, merged.rel2.to_id, merged.rel2)
        out_relation(n) ==
            IF n \in p1_succ \cap p2_succ
            THEN RelationMerge(rerouted_from(g.relation[<<p1, n>>], merged_id),
                               rerouted_from(g.relation[<<p2, n>>], merged_id))
            ELSE IF n \in p1_succ THEN rerouted_from(g.relation[<<p1, n>>], merged_id)
            ELSE rerouted_from(g.relation[<<p2, n>>], merged_id)
        in_relation(n) ==
            IF n \in p1_pred \cap p2_pred
            THEN RelationMerge(rerouted_to(g.relation[<<n, p1>>], merged_id),
                               rerouted_to(g.relation[<<n, p2>>], merged_id))
            ELSE IF n \in p1_pred THEN rerouted_to(g.relation[<<n, p1>>], merged_id)
            ELSE rerouted_to(g.relation[<<n, p2>>], merged_id)
        removed == {<<p1, n>> : n \in p1_succ} \cup {<<p2, n>> : n \in p2_succ}
                   \cup {<<n, p1>> : n \in p1_pred} \cup {<<n, p2>> : n \in p2_pred}
        outgoing == {<<merged_id, n>> : n \in p1_succ \cup p2_succ}
        incoming == {<<n, merged_id>> : n \in p1_pred \cup p2_pred}
        cut == remove_edges(with_node, removed)
    IN [cut EXCEPT
          !.edges = @ \cup outgoing \cup incoming,
          !.relation = [e \in DOMAIN @ \cup outgoing \cup incoming |->
                           IF e \in outgoing THEN out_relation(e[2])
                           ELSE IF e \in incoming THEN in_relation(e[1])
                           ELSE @[e]]]

\* lines 212-229: relation1.merge(relation2) raises for a shared successor or
\* a shared predecessor; no try encloses these lines
RewireRaises(g, p1, p2) ==
    \/ \E neighbor \in live_successors(g, p1) \cap live_successors(g, p2) :
          RelationMergeConflict(rerouted_from(g.relation[<<p1, neighbor>>], fresh_person_id(g)),
                                rerouted_from(g.relation[<<p2, neighbor>>], fresh_person_id(g)))
    \/ \E neighbor \in live_predecessors(g, p1) \cap live_predecessors(g, p2) :
          RelationMergeConflict(rerouted_to(g.relation[<<neighbor, p1>>], fresh_person_id(g)),
                                rerouted_to(g.relation[<<neighbor, p2>>], fresh_person_id(g)))

\* a write-back that leaves the persons of new_twig out
target_only(g, new, target) == target

\* lines 232-239: the list written back to processed_twigs[target_key]
WrittenBack(g, new, target) ==
    LET appended == target \o SelectIn(new, Range(new) \ Range(target))
    IN SelectIn(appended, {person \in Range(appended) : Live(g, person)})

\* ------------------------------------------------------- the input graphs
MaxTwigs == 2
MaxRuns == 2

Surnames == {"s1", "s2"}

\* the families the input graph is put together from
Variants ==
    {"plain",      \* father, mother and three children
     "remarried",  \* the same, the marriage dated to another year
     "twins",      \* two of the children carry the same name
     "cousins",    \* one child carries another name
     "strangers",  \* the same surname and no given name in common
     "doubtful",   \* the father carries two Birth facts
     "other",      \* another surname
     "large",      \* a fourth child
     "small",      \* two children only
     "married",    \* the mother also carries a married name of another surname
     "estranged",  \* a sixth person of the surname, related to nobody
     "grafted"}    \* the father is the person an earlier run merged two persons into

\* the live members of a family
FamilySize(v) == IF v = "small" THEN 4 ELSE IF v = "large" THEN 6 ELSE 5

\* the members an earlier run left behind with merged = true
Tombstones(v) == IF v = "grafted" THEN <<8, 9>> ELSE <<>>

\* the persons of the input that no relationship names
Loners(v) == IF v = "estranged" THEN <<6>> ELSE <<>>

Members(v) == [i \in 1..FamilySize(v) |-> i] \o Loners(v) \o Tombstones(v)

\* the given name of member i of a family
Given(v, i) ==
    IF v = "strangers" THEN <<"h1", "h2", "h3", "h4", "h5">>[i]
    ELSE IF v = "twins" /\ i = 5 THEN "g3"
    ELSE IF v = "cousins" /\ i = 5 THEN "g7"
    ELSE IF i \in Range(Tombstones(v)) THEN "g1"
    ELSE <<"g1", "g2", "g3", "g4", "g5", "g6">>[i]

Gender(i) == <<"male", "female", "male", "female", "male", "female", "male", "male", "male">>[i]

Year(y) == Date(y, y, 0)

Member(v, base, i) ==
    Person(base + i, Gender(i),
           <<Name("birth", Given(v, i), IF v = "other" THEN "s2" ELSE "s1")>>
             \o (IF v = "married" /\ i = 2 THEN <<Name("married", Given(v, i), "s2")>>
                 ELSE <<>>),
           IF v = "doubtful" /\ i = 1
           THEN <<Fact("Birth", <<Year(1)>>), Fact("Birth", <<Year(2)>>)>>
           ELSE <<>>,
           i \in Range(Tombstones(v)))

\* the father is the spouse of the mother; both are parents of every child;
\* a tombstone keeps its provenance edge to the father
FamilyEdges(v, base) ==
    {<<base + 1, base + 2>>}
    \cup {<<base + parent, base + child>> : parent \in 1..2, child \in 3..FamilySize(v)}
    \cup {<<base + i, base + 1>> : i \in Range(Tombstones(v))}

FamilyRelation(v, base, e) ==
    IF e[2] = base + 1 THEN Relationship(e[1], e[2], MergedInto, <<>>)
    ELSE IF e = <<base + 1, base + 2>>
    THEN Relationship(e[1], e[2], "spouse",
                      <<Fact("Marriage", <<Year(IF v = "remarried" THEN 20 ELSE 10)>>)>>)
    ELSE Relationship(e[1], e[2], "parent-child", <<>>)

TwigBase(k) == 10 * k

\* the graph PeopleGraph loads: family k holds the persons TwigBase(k) + 1 ...
InputGraph(families) ==
    LET K == 1..Len(families)
        ids(k) == {TwigBase(k) + i : i \in Range(Members(families[k]))}
        family_of(n) == CHOOSE k \in K : n \in ids(k)
        all_edges == UNION {FamilyEdges(families[k], TwigBase(k)) : k \in K}
        RECURSIVE listed(_)
        listed(k) ==
            IF k > Len(families) THEN <<>>
            ELSE [i \in 1..Len(Members(families[k])) |->
                     TwigBase(k) + Members(families[k])[i]] \o listed(k + 1)
    IN PeopleGraph(
         listed(1),
         [n \in UNION {ids(k) : k \in K} |->
             Member(families[family_of(n)], TwigBase(family_of(n)), n - TwigBase(family_of(n)))],
         all_edges,
         [e \in all_edges |->
             FamilyRelation(families[family_of(e[1])], TwigBase(family_of(e[1])), e)])

Reverse(s) == [i \in 1..Len(s) |-> s[Len(s) + 1 - i]]

\* list(component): the order in which a set is walked is not fixed by the
\* code; the graph's order and its reverse are the two orders drawn here
TwigOrders(g, component) ==
    {SelectIn(g.nodes, component), Reverse(SelectIn(g.nodes, component))}

\* main() down to the while loop; mcgregor has not been called
InitMerge ==
    /\ \E n \in 1..MaxTwigs : \E families \in [1..n -> Variants] :
          the_graph = InputGraph(families)
    /\ twig_queue = sorted_by_len(weakly_connected_components(
                        the_graph, {n \in Range(the_graph.nodes) : Live(the_graph, n)}))
    /\ processed_twigs = <<>>
    /\ surname_index = [name \in Surnames |-> {}]
    /\ sanity_check(the_graph)
    /\ new_twig = <<>>
    /\ new_twig_surnames = {}
    /\ targets = {}
    /\ target_key = None
    /\ target_twig = <<>>
    /\ match = <<>>
    /\ merge_successful = FALSE
    /\ log = ""
    /\ input_json = json(people_of(the_graph), the_graph)
    /\ run = 1
    /\ at = "while"
    /\ graph1 = MkGraph(<<>>, {}, <<>>)
    /\ graph2 = MkGraph(<<>>, {}, <<>>)
    /\ node_comparison = NoPredicate
    /\ edge_comparison = FALSE
    /\ mcs = McsOf(graph1, graph2, node_comparison)
    /\ stack = <<>>
    /\ pc = "idle"
    /\ ComparisonIdle

\* ------------------------------------------------------ main(): the actions
NotCalled == UNCHANGED search_vars

\* the step belongs to the run at hand
SameRun == UNCHANGED <<input_json, run>>

NotCompared == UNCHANGED compare_vars

\* new_twig taken from the end of the queue, the queue left as it was
PeekTwig(order) ==
    /\ twig_queue' = twig_queue
    /\ new_twig' = order
    /\ new_twig_surnames' =
           UNION {standardized_surnames(the_graph.person[person_id]) :
                     person_id \in Range(order)}

\* new_twig = list(twig_queue.pop()) and the surnames of its persons
PopTwig(order) ==
    /\ twig_queue' = SubSeq(twig_queue, 1, Len(twig_queue) - 1)
    /\ new_twig' = order
    /\ new_twig_surnames' =
           UNION {standardized_surnames(the_graph.person[person_id]) :
                     person_id \in Range(order)}

\* the while loop has a twig to pop
Popping == at = "while" /\ twig_queue # <<>>
Popped == TwigOrders(the_graph, twig_queue[Len(twig_queue)])

TargetsOf(surnames) == UNION {surname_index[name] : name \in surnames}

\* lines 80-82: the twig is too small, the loop is left
PopTooSmall ==
    /\ Popping
    /\ \E order \in Popped :
        /\ PopTwig(order)
        /\ Len(order) < minimum_match_size
        /\ log' = "twig too small to achieve minimum match size, terminating"
        /\ at' = "finished"
        /\ UNCHANGED <<the_graph, processed_twigs, surname_index, targets, target_key,
                       target_twig, match, merge_successful>>
        /\ NotCalled
        /\ SameRun
        /\ NotCompared

\* lines 88-94: the first twig is registered
RegisterFirst ==
    /\ Popping
    /\ \E order \in Popped :
        /\ PopTwig(order)
        /\ Len(order) >= minimum_match_size
        /\ processed_twigs = <<>>
        /\ add_processed_twig
        /\ UNCHANGED <<the_graph, targets, target_key, target_twig, match,
                       merge_successful, log, at>>
        /\ NotCalled
        /\ SameRun
        /\ NotCompared

\* lines 96-106: no processed twig shares a surname with the twig
RegisterNoTargets ==
    /\ Popping
    /\ \E order \in Popped :
        /\ PopTwig(order)
        /\ Len(order) >= minimum_match_size
        /\ processed_twigs # <<>>
        /\ TargetsOf(new_twig_surnames') = {}
        /\ targets' = {}
        /\ add_processed_twig
        /\ UNCHANGED <<the_graph, target_key, target_twig, match, merge_successful,
                       log, at>>
        /\ NotCalled
        /\ SameRun
        /\ NotCompared

\* lines 96-108: there are candidates
BeginCandidates ==
    /\ Popping
    /\ \E order \in Popped :
        /\ PopTwig(order)
        /\ Len(order) >= minimum_match_size
        /\ processed_twigs # <<>>
        /\ TargetsOf(new_twig_surnames') # {}
        /\ targets' = TargetsOf(new_twig_surnames')
        /\ merge_successful' = FALSE
        /\ at' = "for_target"
        /\ UNCHANGED <<the_graph, processed_twigs, surname_index, target_key,
                       target_twig, match, log>>
        /\ NotCalled
        /\ SameRun
        /\ NotCompared

\* lines 110-121: the next candidate and the call of mcgregor for it
CallMcgregor ==
    /\ at = "for_target"
    /\ \E key \in targets :
        /\ target_key' = key
        /\ target_twig' = processed_twigs[key]
        /\ targets' = targets \ {key}
        /\ graph1' = FirstArgument(the_graph, new_twig, processed_twigs[key])
        /\ graph2' = SecondArgument(the_graph, new_twig, processed_twigs[key])
        /\ edge_comparison' = TRUE
        /\ stack' = <<>>
        /\ IF McsRaises(the_graph, new_twig, processed_twigs[key])
           THEN /\ UNCHANGED <<node_comparison, mcs>>
                /\ pc' = "raised"
           ELSE /\ mcs' = TwigMcs(the_graph, new_twig, processed_twigs[key])
                /\ node_comparison' = node_match(the_graph, mcs'.graph1, mcs'.graph2)
                /\ pc' = "returned"
    /\ at' = "called"
    /\ UNCHANGED <<the_graph, twig_queue, processed_twigs, surname_index, new_twig,
                   new_twig_surnames, match, merge_successful, log>>
    /\ SameRun
    /\ NotCompared

\* break in the place of continue: the loop over the candidates is left
LeaveCandidates(message) ==
    /\ log' = message
    /\ at' = "while"
    /\ UNCHANGED <<the_graph, twig_queue, processed_twigs, surname_index, new_twig,
                   new_twig_surnames, targets, target_key, target_twig, match,
                   merge_successful>>
    /\ NotCalled
    /\ SameRun
    /\ NotCompared

\* continue: the candidate is skipped
Skip(message) ==
    /\ log' = message
    /\ at' = "for_target"
    /\ UNCHANGED <<the_graph, twig_queue, processed_twigs, surname_index, new_twig,
                   new_twig_surnames, targets, target_key, target_twig, match,
                   merge_successful>>
    /\ NotCalled
    /\ SameRun
    /\ NotCompared

\* lines 122-128: mcgregor raised ValueError
CandidateRaises ==
    /\ at = "called"
    /\ pc = "raised"
    /\ Skip("error during macgregor")

\* lines 130-132
CandidateNoMatch ==
    /\ at = "called"
    /\ pc = "returned"
    /\ Verdict(mcs) = "no common subgraph"
    /\ Skip("no common subgraph")

\* lines 133-135
CandidateAmbiguous ==
    /\ at = "called"
    /\ pc = "returned"
    /\ Verdict(mcs) = "multiple maximal common subgraphs, skipping"
    /\ Skip("multiple maximal common subgraphs, skipping")

\* lines 137-140
CandidateTooSmall ==
    /\ at = "called"
    /\ pc = "returned"
    /\ Verdict(mcs) = "match not big enough"
    /\ Skip("match not big enough")

\* line 142: the match is merged, pair by pair
CandidateGood ==
    /\ at = "called"
    /\ pc = "returned"
    /\ Verdict(mcs) = "good match, merging"
    /\ match' = items(mcs, mcs.maximal_common_subgraphs[1])
    /\ log' = "good match, merging"
    /\ at' = "for_pair"
    /\ UNCHANGED <<the_graph, twig_queue, processed_twigs, surname_index, new_twig,
                   new_twig_surnames, targets, target_key, target_twig, merge_successful>>
    /\ NotCalled
    /\ SameRun
    /\ NotCompared

\* lines 232-246: the candidate's list is written back and the loop over the
\* candidates is left
Finalize(g, target) ==
    /\ target_twig' = WrittenBack(g, new_twig, target)
    /\ processed_twigs' = [processed_twigs EXCEPT ![target_key] = target_twig']
    /\ merge_successful' = TRUE
    /\ at' = IF sanity_check(g) THEN "while" ELSE "raised"

\* lines 163-180 and 232-246: the pre-flight of the pair fails, the loop over
\* the pairs is left
PairAborted ==
    /\ at = "for_pair"
    /\ match # <<>>
    /\ PreflightFails(the_graph, Head(match)[1], Head(match)[2])
    /\ log' = "aborting due to edge merge error"
    /\ match' = <<>>
    /\ Finalize(the_graph, target_twig)
    /\ UNCHANGED <<the_graph, twig_queue, surname_index, new_twig, new_twig_surnames,
                   targets, target_key>>
    /\ NotCalled
    /\ SameRun
    /\ NotCompared

\* lines 152-230: the pair is merged; after the last pair, lines 232-246.
\* Neither Person.merge raising nor Relationship.merge raising in the rewire
\* is caught: main() ends with the exception, in the second case with the
\* merged person and its two provenance edges added.
PairMerged ==
    /\ at = "for_pair"
    /\ match # <<>>
    /\ ~PreflightFails(the_graph, Head(match)[1], Head(match)[2])
    /\ IF MergeIncompatible(the_graph.person[Head(match)[1]],
                            the_graph.person[Head(match)[2]])
       THEN /\ at' = "raised"
            /\ UNCHANGED <<the_graph, match, target_twig, processed_twigs,
                           merge_successful>>
       ELSE IF RewireRaises(the_graph, Head(match)[1], Head(match)[2])
       THEN /\ at' = "raised"
            /\ LET merged == PersonMerge(the_graph.person[Head(match)[1]],
                                         the_graph.person[Head(match)[2]],
                                         fresh_person_id(the_graph))
               IN the_graph' =
                      add_edge(add_edge(add_node(the_graph, merged.person.identifier,
                                                 merged.person),
                                        merged.rel1.from_id, merged.rel1.to_id, merged.rel1),
                               merged.rel2.from_id, merged.rel2.to_id, merged.rel2)
            /\ target_twig' = Append(target_twig, fresh_person_id(the_graph))
            /\ UNCHANGED <<match, processed_twigs, merge_successful>>
       ELSE /\ the_graph' = MergePair(the_graph, Head(match)[1], Head(match)[2])
            /\ match' = Tail(match)
            /\ LET appended == Append(target_twig, fresh_person_id(the_graph))
               IN IF Tail(match) = <<>>
                  THEN Finalize(the_graph', appended)
                  ELSE /\ target_twig' = appended
                       /\ UNCHANGED <<processed_twigs, merge_successful, at>>
    /\ UNCHANGED <<twig_queue, surname_index, new_twig, new_twig_surnames, targets,
                   target_key, log>>
    /\ NotCalled
    /\ SameRun
    /\ NotCompared

\* lines 248-249: no candidate merged, the twig is registered
CandidatesExhausted ==
    /\ at = "for_target"
    /\ targets = {}
    /\ ~merge_successful
    /\ UNCHANGED <<new_twig, new_twig_surnames>>
    /\ add_processed_twig
    /\ at' = "while"
    /\ UNCHANGED <<the_graph, twig_queue, targets, target_key, target_twig, match,
                   merge_successful, log>>
    /\ NotCalled
    /\ SameRun
    /\ NotCompared

\* lines 255-258: the queue is empty
Finish ==
    /\ at = "while"
    /\ twig_queue = <<>>
    /\ log' = "finished"
    /\ at' = IF sanity_check(the_graph) THEN "finished" ELSE "raised"
    /\ UNCHANGED <<the_graph, twig_queue, processed_twigs, surname_index, new_twig,
                   new_twig_surnames, targets, target_key, target_twig, match,
                   merge_successful>>
    /\ NotCalled
    /\ SameRun
    /\ NotCompared

\* main() is run again on the dum2.json that the run before wrote: lines 64-74
\* on the graph of lines 257-258. A node without a person raises KeyError at
\* line 69. A run that merged nothing wrote the graph it had loaded, and the
\* run on that graph is a run InitMerge starts already: only the file of a
\* run that merged is run again.
Rerun ==
    /\ at = "finished"
    /\ run < MaxRuns
    /\ the_graph # from_json(input_json)
    /\ run' = run + 1
    /\ input_json' = json(input_json.persons, the_graph)
    /\ the_graph' = from_json(input_json')
    /\ IF sanity_check(the_graph')
       THEN /\ twig_queue' = sorted_by_len(weakly_connected_components(
                     the_graph', {n \in Range(the_graph'.nodes) : Live(the_graph', n)}))
            /\ at' = "while"
       ELSE /\ twig_queue' = <<>>
            /\ at' = "raised"
    /\ processed_twigs' = <<>>
    /\ surname_index' = [name \in Surnames |-> {}]
    /\ new_twig' = <<>>
    /\ new_twig_surnames' = {}
    /\ targets' = {}
    /\ target_key' = None
    /\ target_twig' = <<>>
    /\ match' = <<>>
    /\ merge_successful' = FALSE
    /\ log' = ""
    /\ NotCalled
    /\ NotCompared

NextMerge ==
    \/ PopTooSmall
    \/ RegisterFirst
    \/ RegisterNoTargets
    \/ BeginCandidates
    \/ CallMcgregor
    \/ CandidateRaises
    \/ CandidateNoMatch
    \/ CandidateAmbiguous
    \/ CandidateTooSmall
    \/ CandidateGood
    \/ PairAborted
    \/ PairMerged
    \/ CandidatesExhausted
    \/ Finish
    \/ Rerun

SpecMerge == InitMerge /\ [][NextMerge]_vars

\* ============================================ person_mismatch on its own
MaxFacts == 2

\* the facts a person is drawn with: a birth in year 0 or 50, a death in year
\* 20, a stillbirth
FactPool ==
    <<Fact("Birth", <<Year(0)>>), Fact("Birth", <<Year(50)>>),
      Fact("Coelebs", <<>>), Fact("Death", <<Year(20)>>),
      Fact("Stillbirth", <<>>)>>

\* the lists of at most MaxFacts facts; no comparison reads the order of the
\* facts of different types, so each choice of facts is drawn in one order
FactLists ==
    UNION {{[i \in 1..n |-> FactPool[choice[i]]] :
               choice \in {c \in [1..n -> 1..Len(FactPool)] :
                              \A i \in 1..(n - 1) : c[i] <= c[i + 1]}} :
           n \in 0..MaxFacts}

\* Person.gender of a person whose gender is not known: None
UnknownGender == "None"

\* the names a person is drawn with: none, a birth name, a birth name and a
\* married name, a name of unknown type without a standard given name
NameLists ==
    {<<>>,
     <<Name("birth", "g1", "s1")>>,
     <<Name("birth", "g2", "s1")>>,
     <<Name("birth", "g1", "s2"), Name("married", "g1", "s1")>>,
     <<Name("unknown", "", "s1")>>}

Persons(identifier) ==
    {Person(identifier, gender, names, facts, FALSE) :
        gender \in {"male", "female", UnknownGender}, names \in NameLists,
        facts \in FactLists}

InitCompare ==
    /\ person_a \in Persons(1)
    /\ person_b \in Persons(2)
    /\ mismatch = "idle"
    /\ swapped = "idle"
    /\ MergerIdle
    /\ graph1 = MkGraph(<<>>, {}, <<>>)
    /\ graph2 = MkGraph(<<>>, {}, <<>>)
    /\ node_comparison = NoPredicate
    /\ edge_comparison = FALSE
    /\ mcs = McsOf(graph1, graph2, node_comparison)
    /\ stack = <<>>
    /\ pc = "idle"

\* person_mismatch(person1, person2): nothing in the call assigns to a field
\* of either person (get_names() and get_facts() build new dicts)
CallMismatch ==
    /\ mismatch = "idle"
    /\ mismatch' = person_mismatch(person_a, person_b)
    /\ UNCHANGED <<person_a, person_b, swapped, search_vars, merger_vars>>

\* person_mismatch(person2, person1)
CallSwapped ==
    /\ swapped = "idle"
    /\ swapped' = person_mismatch(person_b, person_a)
    /\ UNCHANGED <<person_a, person_b, mismatch, search_vars, merger_vars>>

NextCompare ==
    \/ CallMismatch
    \/ CallSwapped

SpecCompare == InitCompare /\ [][NextCompare]_vars

\* =================================================================== claims
\* The two graphs in their roles: G1 is matched into G2.
G1 == mcs.graph1
G2 == mcs.graph2

Returned == pc = "returned"
Results == Range(mcs.maximal_common_subgraphs)

node_pred(u, v) == node_comparison.supplied => <<u, v>> \in node_comparison.accepts

\* the image of the G1 edge e under phi is an edge of G2 that edge_pred accepts
ImageEdgeOk(phi, e) ==
    /\ has_edge(G2, phi[e[1]], phi[e[2]])
    /\ edge_comparison => G1.type[e] = G2.type[<<phi[e[1]], phi[e[2]]>>]

\* the G1 edges with both endpoints matched by phi
InnerEdges(phi) == {e \in G1.edges : e[1] \in DOMAIN phi /\ e[2] \in DOMAIN phi}
PreservedEdges(phi) == {e \in InnerEdges(phi) : ImageEdgeOk(phi, e)}

Injective(phi) == \A x, y \in DOMAIN phi : phi[x] = phi[y] => x = y

\* every injective assignment of G1 nodes to G2 nodes that satisfies node_pred
ConsistentAssignments ==
    UNION { {phi \in [D -> Range(G2.nodes)] :
                Injective(phi) /\ \A u \in D : node_pred(u, phi[u])} :
            D \in SUBSET Range(G1.nodes) }

Larger(phi, psi) ==
    \/ Cardinality(PreservedEdges(phi)) > Cardinality(PreservedEdges(psi))
    \/ /\ Cardinality(PreservedEdges(phi)) = Cardinality(PreservedEdges(psi))
       /\ Cardinality(DOMAIN phi) > Cardinality(DOMAIN psi)

\* C1: every returned matching is a largest one: no consistent assignment
\* preserves more edges, or as many edges with more matched nodes.
C1_ReturnedAreLargest ==
    Returned => \A M \in Results : \A phi \in ConsistentAssignments : ~Larger(phi, M)

\* C2: every consistent assignment with as many matched nodes and preserved
\* edges as the returned matchings is itself in the result list.
C2_AllTiesReturned ==
    Returned =>
        \A M \in Results : \A phi \in ConsistentAssignments :
            (/\ Cardinality(DOMAIN phi) = Cardinality(DOMAIN M)
             /\ Cardinality(PreservedEdges(phi)) = Cardinality(PreservedEdges(M)))
            => phi \in Results

\* C3: the recorded assignments are injective, and at the leaf that records an
\* assignment edges_added counts exactly the inner G1 edges whose image is an
\* accepted edge of G2, and edges_removed exactly the other inner edges.
RecordingLeaf == pc = "search" /\ CanLeaf(Here) /\ new_maximal(mcs)

C3_SoundEdgeCount ==
    /\ \A M \in Results : Injective(M)
    /\ RecordingLeaf =>
         LET phi == Matched(mcs.assignments)
         IN /\ Injective(phi)
            /\ mcs.edges_added = Cardinality(PreservedEdges(phi))
            /\ mcs.edges_removed = Cardinality(InnerEdges(phi) \ PreservedEdges(phi))

\* C4: no returned assignment can be extended by a pair (u -> v), u unmatched
\* and v unused, that satisfies node_pred and keeps every edge between u and
\* the matched nodes (an extension never lowers edges_added).
Extension(M, u, v) == [x \in DOMAIN M \cup {u} |-> IF x = u THEN v ELSE M[x]]

Extends(M, u, v) ==
    /\ u \notin DOMAIN M
    /\ v \notin {M[x] : x \in DOMAIN M}
    /\ node_pred(u, v)
    /\ InnerEdges(Extension(M, u, v)) \ InnerEdges(M) \subseteq PreservedEdges(Extension(M, u, v))

C4_NoSingleExtension ==
    Returned =>
        \A M \in Results : \A u \in Range(G1.nodes) : \A v \in Range(G2.nodes) :
            ~Extends(M, u, v)

\* C5: the set of returned matchings is the same whatever the order in which
\* the nodes of G1 and the candidates in G2 are enumerated.
Orders(g) == {p \in [1..Len(g.nodes) -> Range(g.nodes)] : Range(p) = Range(g.nodes)}
Reordered(g, p) == [g EXCEPT !.nodes = p]

C5_OrderIndependent ==
    Returned =>
        \A p1 \in Orders(graph1) : \A p2 \in Orders(graph2) :
            Range(mcgregor(Reordered(graph1, p1), Reordered(graph2, p2),
                           node_comparison, edge_comparison).maximal_common_subgraphs)
                = Results

\* C6: with |V(A)| < |V(B)|, mcgregor(A, B) and mcgregor(B, A) return the same
\* matchings and the same edges_in_maximal_subgraph.
C6_ArgumentOrder ==
    (Returned /\ number_of_nodes(graph1) < number_of_nodes(graph2)) =>
        LET r == mcgregor(graph2, graph1, node_comparison, edge_comparison)
        IN /\ Range(r.maximal_common_subgraphs) = Results
           /\ r.edges_in_maximal_subgraph = mcs.edges_in_maximal_subgraph

\* C7: every returned matching has |V(G1)| - maximal_nodes_removed matched nodes.
C7_NodesRemovedComplement ==
    (Returned /\ Results # {}) =>
        \A M \in Results :
            Cardinality(DOMAIN M) = number_of_nodes(G1) - mcs.maximal_nodes_removed

\* ------------------------------------------------------ claims on the merger
\* the people of the graph that a merge created
MergedPersons == {n \in Range(the_graph.nodes) : n > MergedBase}

\* mcgregor returned exactly one matching, of at least minimum_match_size pairs
UniqueLargeEnough ==
    /\ pc = "returned"
    /\ Len(mcs.maximal_common_subgraphs) = 1
    /\ Cardinality(DOMAIN mcs.maximal_common_subgraphs[1]) >= minimum_match_size

\* C8: the graph is mutated for a candidate only if mcgregor returned exactly
\* one maximal matching with at least minimum_match_size pairs; a candidate
\* for which it returned none, several, or one that is too small is skipped
\* with the graph, processed_twigs and surname_index unchanged.
C8_OnlyUniqueLargeMatchMerges ==
    [][/\ (run' = run /\ the_graph' # the_graph) => UniqueLargeEnough
       /\ (at = "called" /\ pc = "returned" /\ ~UniqueLargeEnough)
            => /\ at' = "for_target"
               /\ target_key \notin targets'
               /\ UNCHANGED <<the_graph, processed_twigs, surname_index>>]_vars

\* a candidate has just been skipped for a match that is too small
C8_Witness ==
    /\ at = "for_target"
    /\ pc = "returned"
    /\ Len(mcs.maximal_common_subgraphs) = 1
    /\ Cardinality(DOMAIN mcs.maximal_common_subgraphs[1]) < minimum_match_size
    /\ log = "match not big enough"

\* the pair the loop over match.items() is about to handle
InPair == at = "for_pair" /\ match # <<>>
P1 == Head(match)[1]
P2 == Head(match)[2]

\* the facts of two relations cannot be reconciled
Irreconcilable(r1, r2) ==
    \/ r1.relationship_type # r2.relationship_type
    \/ \E i \in 1..Len(r1.facts) : \E j \in 1..Len(r2.facts) :
          /\ r1.facts[i].fact_type = r2.facts[j].fact_type
          /\ r1.facts[i].date # <<>>
          /\ r2.facts[j].date # <<>>
          /\ ~datelist_overlap(r1.facts[i].date, r2.facts[j].date)

\* the edge-merge of some shared successor or shared predecessor fails
SharedEdgeMergeFails ==
    \/ \E n \in Range(the_graph.nodes) :
          /\ ~the_graph.person[n].merged
          /\ <<P1, n>> \in the_graph.edges
          /\ <<P2, n>> \in the_graph.edges
          /\ Irreconcilable(the_graph.relation[<<P1, n>>], the_graph.relation[<<P2, n>>])
    \/ \E n \in Range(the_graph.nodes) :
          /\ ~the_graph.person[n].merged
          /\ <<n, P1>> \in the_graph.edges
          /\ <<n, P2>> \in the_graph.edges
          /\ Irreconcilable(the_graph.relation[<<n, P1>>], the_graph.relation[<<n, P2>>])

\* the node merge of the pair and the rewiring of every edge between P1 or P2
\* and a live neighbour have been applied
PairApplied ==
    \E merged_id \in Range(the_graph'.nodes) \ Range(the_graph.nodes) :
        /\ Range(the_graph'.nodes) = Range(the_graph.nodes) \cup {merged_id}
        /\ <<P1, merged_id>> \in the_graph'.edges
        /\ <<P2, merged_id>> \in the_graph'.edges
        /\ \A n \in Range(the_graph.nodes) :
              ~the_graph.person[n].merged =>
                /\ (<<P1, n>> \in the_graph.edges \/ <<P2, n>> \in the_graph.edges)
                     => /\ <<merged_id, n>> \in the_graph'.edges
                        /\ <<P1, n>> \notin the_graph'.edges
                        /\ <<P2, n>> \notin the_graph'.edges
                /\ (<<n, P1>> \in the_graph.edges \/ <<n, P2>> \in the_graph.edges)
                     => /\ <<n, merged_id>> \in the_graph'.edges
                        /\ <<n, P1>> \notin the_graph'.edges
                        /\ <<n, P2>> \notin the_graph'.edges

\* C9: merging one pair is all-or-nothing: when the edge-merge of a shared
\* successor or predecessor fails, the graph (nodes, persons and their merged
\* flags, edges, relations) is left as it was; otherwise the node merge and
\* every rewire and edge-merge are applied.
C9_PairAllOrNothing ==
    [][InPair => IF SharedEdgeMergeFails THEN the_graph' = the_graph ELSE PairApplied]_vars

\* a pair of a match was abandoned after another pair of it had been merged
C9_Witness ==
    /\ log = "aborting due to edge merge error"
    /\ MergedPersons # {}
    /\ at = "while"

\* C10: the failures of the pairs of one match are independent: when the
\* pre-flight of a pair fails, the pairs merged before it stay merged and the
\* loop goes on to the later pairs of the match.
C10_LaterPairsStillAttempted ==
    [][(InPair /\ SharedEdgeMergeFails)
          => /\ the_graph' = the_graph
             /\ match' = Tail(match)
             /\ Tail(match) # <<>> => at' = "for_pair"]_vars

\* every relation names the two ends of its edge
RelationsNameEndpoints(g) ==
    \A e \in g.edges :
        /\ e \in DOMAIN g.relation
        /\ g.relation[e].from_id = e[1]
        /\ g.relation[e].to_id = e[2]

\* C11: after every merge step, the relation of every edge has from_id and
\* to_id equal to the source and the target of the edge, and every node of the
\* graph has a person.
C11_EdgesAndNodesWellFormed ==
    [][(run' = run /\ the_graph' # the_graph) =>
          /\ RelationsNameEndpoints(the_graph')
          /\ \A node \in Range(the_graph'.nodes) : node \in DOMAIN the_graph'.person]_vars

\* a pair was merged whose merged person took over edges in both directions
C11_Witness ==
    \E m \in MergedPersons :
        /\ \E n \in Range(the_graph.nodes) :
              <<m, n>> \in the_graph.edges /\ the_graph.relation[<<m, n>>].from_id = m
        /\ \E n \in Range(the_graph.nodes) \ MergedPersons :
              /\ <<n, m>> \in the_graph.edges
              /\ the_graph.relation[<<n, m>>].relationship_type # MergedInto

\* the persons with a provenance edge to m
ProvenanceOf(m) ==
    {n \in Range(the_graph.nodes) :
        /\ <<n, m>> \in the_graph.edges
        /\ the_graph.relation[<<n, m>>].relationship_type = MergedInto}

\* C12: after a run, every person created by a merge has exactly two
\* provenance edges pointing at it, and the two persons they come from have
\* merged = true.
C12_MergedFromTwoTombstones ==
    at = "finished" =>
        \A m \in MergedPersons :
            /\ Cardinality(ProvenanceOf(m)) = 2
            /\ \A n \in ProvenanceOf(m) : the_graph.person[n].merged

\* C13: once a person has merged = true no step creates an edge incident to
\* it: both ends of every edge a step adds are live when it is added.
C13_NoNewEdgeAtTombstone ==
    [][\A e \in the_graph'.edges \ the_graph.edges :
          \A end \in {e[1], e[2]} :
              /\ ~the_graph'.person[end].merged
              /\ end \in DOMAIN the_graph.person => ~the_graph.person[end].merged]_vars

\* a person with a tombstone among its predecessors was merged, and the
\* tombstone's edge stayed where it was
C13_Witness ==
    \E tombstone \in Range(the_graph.nodes) : \E p \in Range(the_graph.nodes) :
        /\ the_graph.person[tombstone].merged
        /\ <<tombstone, p>> \in the_graph.edges
        /\ \E m \in MergedPersons : <<p, m>> \in the_graph.edges


\* C14: a run of main() on the graph that a completed run wrote does not raise
\* and performs no merge, and its graph is the graph that was written: the same
\* persons with the same merged flags, the same edges and relations.
C14_RerunChangesNothing ==
    run > 1 => /\ at # "raised"
               /\ json(people_of(the_graph), the_graph) = input_json

\* the place of a component in list(nx.weakly_connected_components(...)): the
\* place of its first node in the graph
inserted_at(g, component) ==
    CHOOSE i \in 1..Len(g.nodes) :
        /\ g.nodes[i] \in component
        /\ \A j \in 1..(i - 1) : g.nodes[j] \notin component

\* C15: twigs are popped small-first: the twig a step pops has no more nodes
\* than any twig left in the queue, and a twig of the same size left in the
\* queue was inserted after it.
C15_TwigsPoppedSmallFirst ==
    [][(run' = run /\ Len(twig_queue') < Len(twig_queue)) =>
          \A later \in Range(twig_queue') :
              \/ Len(new_twig') < Cardinality(later)
              \/ /\ Len(new_twig') = Cardinality(later)
                 /\ inserted_at(the_graph, Range(new_twig')) < inserted_at(the_graph, later)]_vars

\* ------------------------------------------------- person_mismatch: claims
\* C16: person_mismatch is symmetric: called on the same two persons in
\* either order it gives the same outcome.
C16_MismatchSymmetric ==
    (mismatch # "idle" /\ swapped # "idle") => mismatch = swapped

\* both orders were called on two persons whose dates exclude each other only
\* through the birth of one and the death of the other
C16_Witness ==
    /\ mismatch = Yes
    /\ swapped = Yes
    /\ person_a.gender = person_b.gender
    /\ name_match(person_a.names, person_b.names) # -1
    /\ ~has_fact(person_a, "Stillbirth")
    /\ ~has_fact(person_b, "Stillbirth")
    /\ fact_date(person_a, "Death") # <<>>
    /\ fact_date(person_a, "Birth") = <<>>
    /\ fact_date(person_b, "Death") = <<>>
    /\ fact_date(person_b, "Birth") # <<>>

\* C17: person_mismatch is total: every call gives a boolean without raising,
\* also for persons with several Birth or Death facts, no names or no facts.
C17_MismatchTotal ==
    /\ mismatch \in {"idle", Yes, No}
    /\ swapped \in {"idle", Yes, No}

C19_SurnameIndexExact ==
    at \in {"while", "finished"} =>
        \A name \in Surnames : \A key \in DOMAIN processed_twigs :
            key \in surname_index[name] <=>
                \E person_id \in Range(processed_twigs[key]) :
                    name \in standardized_surnames(the_graph.person[person_id])

\* the person was merged into another one: a provenance edge leaves it
Consumed(person_id) == \E m \in MergedPersons : person_id \in ProvenanceOf(m)

\* C20: whenever the while loop is about to test its condition, every id in
\* every list of processed_twigs is the id of a live person: none has
\* merged = true and none was consumed by a merge.
C20_ProcessedTwigsHoldLivePersons ==
    at \in {"while", "finished"} =>
        \A key \in DOMAIN processed_twigs :
            \A person_id \in Range(processed_twigs[key]) :
                /\ ~the_graph.person[person_id].merged
                /\ ~Consumed(person_id)

\* the step ends the work on the twig popped last: the while loop is next
TwigSettled ==
    /\ run' = run
    /\ at' = "while"
    /\ at # "while" \/ Len(twig_queue') < Len(twig_queue)

\* the twig was registered under a fresh id, the graph left as it was
Registered ==
    /\ Len(processed_twigs') = Len(processed_twigs) + 1
    /\ processed_twigs' = Append(processed_twigs, new_twig')
    /\ the_graph' = the_graph

\* the twig went into the list of exactly one candidate, the one at hand
Absorbed ==
    /\ DOMAIN processed_twigs' = DOMAIN processed_twigs
    /\ \A key \in DOMAIN processed_twigs :
          key # target_key => processed_twigs'[key] = processed_twigs[key]
    /\ Range(new_twig) \subseteq Range(processed_twigs'[target_key])
    /\ merge_successful'

\* C21: the work on a popped twig of at least minimum_match_size nodes ends
\* in exactly one of two ways: the twig is merged into one candidate and not
\* registered, no further candidate being tried, or it is registered under a
\* fresh id after every candidate was skipped or there was none.
C21_MergedOrRegistered ==
    [][TwigSettled =>
          /\ Registered \/ Absorbed
          /\ ~(Registered /\ Absorbed)
          /\ Registered => targets' = {}]_vars

\* a twig has been merged into a candidate and the loop is back at its head
C21_Witness ==
    /\ at = "while"
    /\ merge_successful
    /\ MergedPersons # {}
    /\ Len(processed_twigs) = 1
    /\ Range(new_twig) \subseteq Range(processed_twigs[1])

\* the run was ended by a popped twig of fewer than minimum_match_size nodes
EndedByTooSmall ==
    /\ at = "finished"
    /\ log = "twig too small to achieve minimum match size, terminating"

\* C22: when the driver ends because the popped twig has fewer than
\* minimum_match_size nodes, every twig still in the queue has fewer than
\* minimum_match_size nodes too: no component that is large enough is left
\* unprocessed.
C22_NothingLargeLeftQueued ==
    EndedByTooSmall =>
        \A component \in Range(twig_queue) : Cardinality(component) < minimum_match_size

\* the driver ended on a twig that is too small with another twig still queued
C22_Witness ==
    /\ EndedByTooSmall
    /\ Len(new_twig) < minimum_match_size
    /\ twig_queue # <<>>

\* the step commits the pair at the head of match
PairCommitted ==
    /\ InPair
    /\ run' = run
    /\ at' # "raised"
    /\ the_graph' # the_graph

\* C23: after a committed pair (p1, p2) -> p_m, for every live neighbour n the
\* edge p_m -> n exists exactly when p1 -> n or p2 -> n existed before, and
\* likewise n -> p_m (the two provenance edges p1 -> p_m and p2 -> p_m apart);
\* p1 and p2 keep no edge to a live neighbour but their provenance edges to
\* p_m; every edge that is not incident to p1 or p2 is as it was, and every
\* new edge is incident to p_m.
C23_RewireExact ==
    [][PairCommitted =>
          \E merged_id \in Range(the_graph'.nodes) \ Range(the_graph.nodes) :
              /\ \A n \in Range(the_graph.nodes) :
                    ~the_graph.person[n].merged =>
                       /\ <<merged_id, n>> \in the_graph'.edges
                            <=> (<<P1, n>> \in the_graph.edges \/ <<P2, n>> \in the_graph.edges)
                       /\ <<n, merged_id>> \in the_graph'.edges
                            <=> (<<n, P1>> \in the_graph.edges \/ <<n, P2>> \in the_graph.edges
                                 \/ n \in {P1, P2})
              /\ \A e \in the_graph'.edges :
                    \A i \in {1, 2} :
                       (e[i] \in {P1, P2} /\ ~the_graph'.person[e[3 - i]].merged)
                          => e \in {<<P1, merged_id>>, <<P2, merged_id>>}
              /\ \A e \in the_graph.edges :
                    (e[1] \notin {P1, P2} /\ e[2] \notin {P1, P2})
                       => /\ e \in the_graph'.edges
                          /\ the_graph'.relation[e] = the_graph.relation[e]
              /\ \A e \in the_graph'.edges \ the_graph.edges :
                    merged_id \in {e[1], e[2]}]_vars

\* every pair of a match was committed, and a merged person has an edge to a
\* person that no pair consumed: an edge only one person of its pair had
C23_Witness ==
    /\ at = "while"
    /\ log = "good match, merging"
    /\ \E m \in MergedPersons : \E n \in Range(the_graph.nodes) :
          /\ <<m, n>> \in the_graph.edges
          /\ n \notin MergedPersons
          /\ ~Consumed(n)
          /\ Cardinality(ProvenanceOf(m)) = 2
          /\ \A person_id \in ProvenanceOf(m) : <<person_id, n>> \notin the_graph.edges

\* C24: when mcgregor raises for a candidate, the candidate is skipped with
\* the graph, processed_twigs and surname_index as they were and the loop goes
\* on to the next candidate; when no candidate is left and none merged, the
\* twig is registered as a new processed twig.
C24_RaisingCandidateSkipped ==
    [][/\ (at = "called" /\ pc = "raised")
            => /\ at' = "for_target"
               /\ target_key \notin targets'
               /\ targets' = targets
               /\ UNCHANGED <<the_graph, processed_twigs, surname_index, new_twig>>
       /\ (run' = run /\ at = "for_target" /\ targets = {})
            => /\ at' = "while"
               /\ Registered]_vars

\* mcgregor raised for the only candidate, and the twig has been registered
C24_Witness ==
    /\ log = "error during macgregor"
    /\ pc = "raised"
    /\ at = "while"
    /\ Len(processed_twigs) = 2
    /\ processed_twigs[2] = new_twig

C26_UnknownGenderNotRejected ==
    (mismatch # "idle" /\ UnknownGender \in {person_a.gender, person_b.gender}) =>
        mismatch = person_mismatch([person_a EXCEPT !.gender = person_b.gender], person_b)


\* C27: person_mismatch returns true for every pair in which one Person has a
\* Coelebs (never married) fact and the other has a married Name.
C27_CoelebsRejectsMarried ==
    (/\ mismatch # "idle"
     /\ has_fact(person_a, "Coelebs")
     /\ OfType(person_b.names, "name_type", "married") # <<>>) =>
        mismatch = Yes

\* the invocations that are waiting for a recursive call of theirs to return
Callers(st, k) == {j \in 1..(k - 1) : st[j].at \in {"after_call", "after_null"}}

\* matching.assignments as the k-th invocation on the stack received it: what
\* each invocation below it assigned before its recursive call
EntryAssignments(st, k) ==
    [g1node \in {st[j].g1node : j \in Callers(st, k)} |->
        LET f == st[CHOOSE j \in Callers(st, k) : st[j].g1node = g1node]
        IN IF f.at = "after_null" THEN None ELSE Head(f.todo)]

\* matching.nodes_removed as the k-th invocation on the stack received it
EntryNodesRemoved(st, k) ==
    Cardinality({j \in Callers(st, k) : st[j].at = "after_null"})

\* the matching holds what the invocation on top of st was entered with
AsOnEntry(m, st) ==
    /\ m.assignments = EntryAssignments(st, Len(st))
    /\ m.nodes_removed = EntryNodesRemoved(st, Len(st))
    /\ m.edges_removed = Top(st).starting_edges_removed
    /\ m.edges_added = Top(st).starting_edges_added

\* C28: every invocation of graph_matcher returns with assignments,
\* edges_added, edges_removed and nodes_removed equal to their values on
\* entry, whichever branches were taken or pruned; when mcgregor returns,
\* assignments is empty and the three counters are 0.
C28_SearchRestoresMatching ==
    [][/\ (pc' = "search" /\ Len(stack') > Len(stack)) => AsOnEntry(mcs', stack')
       /\ (pc = "search" /\ Len(stack') < Len(stack)) => AsOnEntry(mcs', stack)
       /\ pc' = "returned" =>
             /\ mcs'.assignments = [x \in {} |-> None]
             /\ mcs'.edges_added = 0
             /\ mcs'.edges_removed = 0
             /\ mcs'.nodes_removed = 0]_vars

\* a search has returned that recorded a matching and left a node of the small
\* graph unmatched, under a bound on removed edges it found on the way
C28_Witness ==
    /\ pc = "returned"
    /\ mcs.maximal_edges_removed < Inf
    /\ \E i \in 1..Len(mcs.maximal_common_subgraphs) :
          DOMAIN mcs.maximal_common_subgraphs[i] # {}
    /\ mcs.maximal_nodes_removed \in 1..MaxNodes

\* the persons of twig are one weakly connected set of g, none of them merged
OneComponent(g, twig) ==
    /\ \A person_id \in Range(twig) : person_id \in DOMAIN g.person /\ Live(g, person_id)
    /\ twig # <<>> => Reach(g, Range(twig), {twig[1]}) = Range(twig)

\* a person created by a merge of a person of new with a person of target
JoinedBy(g, new, target, joint) ==
    \E m \in Range(joint) :
        \E p1 \in Range(new), p2 \in Range(target) :
            \A p \in {p1, p2} :
                /\ <<p, m>> \in g.edges
                /\ g.relation[<<p, m>>].relationship_type = MergedInto

\* C29: after every step of the driver loop, the persons listed in each
\* processed twig form one weakly connected set in the live graph; a twig
\* whose nodes were appended to a candidate is joined to that candidate by at
\* least one merged person, also when a pair of the match failed its pre-flight.
C29_ProcessedTwigsConnected ==
    [][(run' = run /\ at' = "while") =>
          /\ \A key \in DOMAIN processed_twigs' :
                OneComponent(the_graph', processed_twigs'[key])
          /\ (TwigSettled /\ Absorbed) =>
                JoinedBy(the_graph', new_twig, processed_twigs[target_key],
                         processed_twigs'[target_key])]_vars

\* a twig went into a candidate although a pair of the match failed its
\* pre-flight, and the loop is back at its head
C29_Witness ==
    /\ at = "while"
    /\ merge_successful
    /\ log = "aborting due to edge merge error"
    /\ \E key \in DOMAIN processed_twigs :
          /\ Range(new_twig) \subseteq Range(processed_twigs[key])
          /\ Range(processed_twigs[key]) \cap MergedPersons # {}

\* the edges of g at person_id, each with its relation
IncidentEdges(g, person_id) ==
    {<<e, g.relation[e]>> : e \in {d \in g.edges : person_id \in {d[1], d[2]}}}

\* every queued twig holds live persons only, none of them consumed by a
\* merge, and shares no person with a processed twig or another queued twig
QueueValid(g, queue, processed) ==
    \A i \in 1..Len(queue) :
        /\ \A person_id \in queue[i] :
              /\ person_id \in DOMAIN g.person
              /\ Live(g, person_id)
              /\ \A e \in g.edges :
                    e[1] = person_id => g.relation[e].relationship_type # MergedInto
        /\ \A key \in DOMAIN processed : queue[i] \cap Range(processed[key]) = {}
        /\ \A j \in 1..Len(queue) : j # i => queue[i] \cap queue[j] = {}

\* C30: throughout a run, every twig still in the queue consists only of live
\* persons, shares no person with any processed twig or with another queued
\* twig, and no merge of other twigs adds, removes or re-targets an edge
\* incident to one of its persons.
C30_QueuedTwigsUntouched ==
    [][/\ QueueValid(the_graph, twig_queue, processed_twigs)
       /\ QueueValid(the_graph', twig_queue', processed_twigs')
       /\ run' = run =>
             \A i \in 1..Len(twig_queue') : \A person_id \in twig_queue'[i] :
                 IncidentEdges(the_graph', person_id) = IncidentEdges(the_graph, person_id)]_vars

\* a twig was merged into a candidate while another twig is still queued
C30_Witness ==
    /\ at = "while"
    /\ twig_queue # <<>>
    /\ MergedPersons # {}
    /\ processed_twigs # <<>>
====
